---- MODULE Spec2Model ----
(***************************************************************************)
(* Holdings Analytics API: the GET /api/holdings handler (backend/main.py), *)
(* its date-range resolution (get_timeframe_dates), the four queries it    *)
(* runs against the holdings table (backend/models.py), the response       *)
(* models it builds (backend/schemas.py) and the request-scoped session    *)
(* (backend/database.py).                                                  *)
(*                                                                         *)
(* One behaviour is one request: the parameters arrive, the handler runs   *)
(* from one await to the next, and the session dependency is torn down.    *)
(*                                                                         *)
(* main.py:12-14 imports ChartItem from backend.schemas, which defines no  *)
(* such class; the handler body is modelled with that name bound to a      *)
(* model of the three fields main.py:107 passes to it.                     *)
(***************************************************************************)
EXTENDS Integers, Sequences, FiniteSets, TLC

VARIABLES store, now, req, pc, session, resolved, filters, summary_row,
          chart_data, table_rows, table_data, total_count, response, logged

vars == <<store, now, req, pc, session, resolved, filters, summary_row,
          chart_data, table_rows, table_data, total_count, response, logged>>

\* Optional[T]: None, or a value.
None == <<>>
Some(x) == <<x>>

-----------------------------------------------------------------------------
(* datetime / timedelta, as Python's datetime module keeps them *)

DT(d, s, u) == [day |-> d, sec |-> s, us |-> u]

\* datetime.min.time() and datetime.max.time()
TimeMin == [sec |-> 0, us |-> 0]
TimeMax == [sec |-> 86399, us |-> 999999]

\* datetime.combine(date, time)
Combine(d, t) == [day |-> d, sec |-> t.sec, us |-> t.us]

\* a <= b on datetimes
DtLeq(a, b) ==
    \/ a.day < b.day
    \/ a.day = b.day /\ a.sec < b.sec
    \/ a.day = b.day /\ a.sec = b.sec /\ a.us <= b.us

\* datetime - timedelta(days=n)
DtMinusDays(a, n) == [a EXCEPT !.day = @ - n]

\* datetime - datetime: a timedelta normalised so that 0 <= seconds < 86400 and
\* 0 <= microseconds < 1000000 (days carries the sign).
DtSub(a, b) ==
    LET us0  == a.us - b.us
        sec1 == (a.sec - b.sec) + (us0 \div 1000000)
    IN  [days         |-> (a.day - b.day) + (sec1 \div 86400),
         seconds      |-> sec1 % 86400,
         microseconds |-> us0 % 1000000]

-----------------------------------------------------------------------------
(* get_timeframe_dates, main.py:30-57 *)

MaxRangeDays == 365

TimeframeTokens == {"1D", "1W", "1M", "3M", "6M", "1Y"}

TimeframeDays(tf) ==
    CASE tf = "1D" -> 1
      [] tf = "1W" -> 7
      [] tf = "1M" -> 30
      [] tf = "3M" -> 90
      [] tf = "6M" -> 180
      [] tf = "1Y" -> 365

Range(s, e) == [ok |-> TRUE, start |-> s, end |-> e]
Raise400(msg) == [ok |-> FALSE, status_code |-> 400, detail |-> msg]

RangeTooLongInclusive(start, end) == DtSub(end, start).days >= MaxRangeDays

\* (end - start).days > 365
RangeTooLong(start, end) == DtSub(end, start).days > MaxRangeDays

\* `not start_date or not end_date`: a date object is always truthy.
DatesMissing(start_date, end_date) == start_date = None \/ end_date = None

get_timeframe_dates(timeframe, start_date, end_date, clock) ==
    IF timeframe # None /\ timeframe[1] # ""
    THEN IF timeframe[1] \in TimeframeTokens
         THEN Range(DtMinusDays(clock, TimeframeDays(timeframe[1])), clock)
         ELSE Raise400("Invalid timeframe shortcut")
    ELSE IF DatesMissing(start_date, end_date)
         THEN Range(DtMinusDays(clock, 30), clock)
         ELSE LET start == Combine(start_date[1], TimeMin)
                  end   == Combine(end_date[1], TimeMax)
              IN  IF RangeTooLong(start, end)
                  THEN Raise400("Date range cannot exceed 1 year")
                  ELSE Range(start, end)

-----------------------------------------------------------------------------
(* the filter list and the four statements, main.py:76-133 *)

Lower(c) == CASE c = "A" -> "a" [] c = "B" -> "b" [] OTHER -> c

\* column ILIKE '%' || pat || '%' (pat holds no LIKE wildcard of its own)
ILike(s, pat) ==
    \E i \in 0..(Len(s) - Len(pat)) :
        \A j \in 1..Len(pat) : Lower(s[i + j]) = Lower(pat[j])

\* Python truthiness of an Optional[int] and of an Optional[str]
TruthyInt(x) == x # None /\ x[1] # 0
TruthyStr(x) == x # None /\ Len(x[1]) > 0

BaseFiltersAnyQuantity(start, end) ==
    << [col |-> "trade_date", op |-> "ge", val |-> start],
       [col |-> "trade_date", op |-> "le", val |-> end] >>

BaseFilters(start, end) ==
    << [col |-> "quantity",   op |-> "gt", val |-> 0],
       [col |-> "trade_date", op |-> "ge", val |-> start],
       [col |-> "trade_date", op |-> "le", val |-> end] >>

BrokerFilter(broker_id) ==
    IF TruthyInt(broker_id)
    THEN << [col |-> "broker_id", op |-> "eq", val |-> broker_id[1]] >>
    ELSE << >>

SymbolFilter(symbol) ==
    IF TruthyStr(symbol)
    THEN << [col |-> "symbol", op |-> "ilike", val |-> symbol[1]] >>
    ELSE << >>

BuildFilters(start, end, broker_id, symbol) ==
    BaseFilters(start, end) \o BrokerFilter(broker_id) \o SymbolFilter(symbol)

Holds(r, f) ==
    CASE f.op = "gt"    -> r[f.col] > f.val
      [] f.op = "ge"    -> DtLeq(f.val, r[f.col])
      [] f.op = "le"    -> DtLeq(r[f.col], f.val)
      [] f.op = "eq"    -> r[f.col] = f.val
      [] f.op = "ilike" -> ILike(r[f.col], f.val)

\* .where(and_(*filters))
Where(rows, fs) == {r \in rows : \A i \in DOMAIN fs : Holds(r, fs[i])}

RECURSIVE SumCol(_, _)
SumCol(S, col) ==
    IF S = {} THEN 0
    ELSE LET r == CHOOSE x \in S : TRUE IN r[col] + SumCol(S \ {r}, col)

\* SQL SUM: NULL over no rows
SqlSum(S, col) == IF S = {} THEN None ELSE Some(SumCol(S, col))

\* `x or 0`, then float(): every amount of the model is an integer that
\* binary64 holds exactly.
OrZero(x) == IF x = None \/ x[1] = 0 THEN 0 ELSE x[1]

GroupCol(group_by) == IF group_by = "broker_id" THEN "broker_id" ELSE "symbol"

SummaryStmt(S, entity_col) ==
    [total_volume    |-> SqlSum(S, "volume"),
     total_turnover  |-> SqlSum(S, "turnover"),
     active_entities |-> Cardinality({r[entity_col] : r \in S})]

\* func.date(Holding.trade_date)
DateOf(dt) == dt.day

ChartRow(S, d) ==
    LET G == {r \in S : DateOf(r.trade_date) = d}
    IN  [date |-> d, volume |-> SumCol(G, "volume"), turnover |-> SumCol(G, "turnover")]

\* GROUP BY date ORDER BY date
ChartStmt(S) ==
    LET D == {DateOf(r.trade_date) : r \in S}
        n == Cardinality(D)
        order == CHOOSE s \in [1..n -> D] : \A i, j \in 1..n : i < j => s[i] < s[j]
    IN  [i \in 1..n |-> ChartRow(S, order[i])]

\* str(row.date): the ISO text of the date, kept apart from the date itself
StrDate(d) == <<"iso", d>>

ChartItem(row) == [date |-> StrDate(row.date), volume |-> row.volume, turnover |-> row.turnover]

TableRow(S, group_col, v) ==
    LET G == {r \in S : r[group_col] = v}
    IN  [entity   |-> v,
         quantity |-> SumCol(G, "quantity"),
         turnover |-> SumCol(G, "turnover"),
         volume   |-> SumCol(G, "volume")]

Min(a, b) == IF a <= b THEN a ELSE b

\* .limit(limit).offset(offset)
Page(s, limit, offset) == SubSeq(s, offset + 1, Min(Len(s), offset + limit))

\* GROUP BY group_col ORDER BY quantity DESC LIMIT .. OFFSET ..: every result the
\* store may give (the order of equal quantities is the store's choice).
TableStmt(S, group_col, limit, offset) ==
    LET G == {TableRow(S, group_col, v) : v \in {r[group_col] : r \in S}}
        n == Cardinality(G)
        orders == {s \in [1..n -> G] :
                      /\ \A i, j \in 1..n : i # j => s[i] # s[j]
                      /\ \A i, j \in 1..n : i < j => s[i].quantity >= s[j].quantity}
    IN  {Page(s, limit, offset) : s \in orders}

CountStmt(S, group_col) == Cardinality({r[group_col] : r \in S})

-----------------------------------------------------------------------------
(* response models, schemas.py *)

SummaryFields == {"total_volume", "total_turnover", "active_entities"}
TableItemFields == {"date", "broker_id", "symbol", "qty", "amount"}
PaginationFields == {"limit", "offset", "total"}
HoldingsResponseFields == {"summary", "table_data", "aggregated_data", "pagination"}

\* BaseModel.__init__: every field is required (none has a default); a keyword
\* that names no field is ignored.
Validates(fields, data) == fields \subseteq DOMAIN data

\* item_data, main.py:123-129
ItemData(row, group_by) ==
    IF group_by = "broker_id"
    THEN [quantity |-> row.quantity, turnover |-> row.turnover,
          volume |-> row.volume, broker_id |-> row.entity]
    ELSE [quantity |-> row.quantity, turnover |-> row.turnover,
          volume |-> row.volume, symbol |-> row.entity]

SummaryData(row) ==
    [total_volume    |-> OrZero(row.total_volume),
     total_turnover  |-> OrZero(row.total_turnover),
     active_entities |-> row.active_entities]

PaginationData(limit, offset, total) == [limit |-> limit, offset |-> offset, total |-> total]

\* the keywords main.py:137-146 passes to HoldingsResponse
ResponseData(summary, chart, table, pagination) ==
    [summary |-> summary, chart_data |-> chart, table_data |-> table,
     pagination |-> pagination]

-----------------------------------------------------------------------------
(* the store and the requests explored *)

MaxLimit == 2
MaxOffset == 2

AAA == <<"A", "A", "A">>
BBB == <<"B", "B", "B">>

\* The clock reads noon of day 800.
Clock == {DT(800, 43200, 0)}

\* Rows the holdings table may hold; the store of a behaviour is any subset.
Rows ==
    { [id |-> 1, broker_id |-> 1, symbol |-> AAA, quantity |-> 10, turnover |-> 100,
       volume |-> 12, trade_date |-> DT(800, 32400, 0)],
      [id |-> 2, broker_id |-> 1, symbol |-> BBB, quantity |-> 5, turnover |-> 50,
       volume |-> 5, trade_date |-> DT(800, 32400, 0)],
      [id |-> 3, broker_id |-> 2, symbol |-> AAA, quantity |-> 0, turnover |-> 30,
       volume |-> 4, trade_date |-> DT(800, 32400, 0)],
      [id |-> 4, broker_id |-> 0, symbol |-> BBB, quantity |-> 7, turnover |-> 70,
       volume |-> 9, trade_date |-> DT(799, 36000, 0)],
      [id |-> 5, broker_id |-> 2, symbol |-> BBB, quantity |-> -1, turnover |-> 20,
       volume |-> 1, trade_date |-> DT(799, 36000, 0)],
      [id |-> 6, broker_id |-> 0, symbol |-> AAA, quantity |-> 3, turnover |-> 40,
       volume |-> 2, trade_date |-> DT(434, 0, 0)] }

OptDates == {None, Some(434), Some(799), Some(800)}
OptTimeframes == {None} \cup {Some(t) : t \in TimeframeTokens \cup {"2Y"}}
OptBrokers == {None, Some(0), Some(1)}
OptSymbols == {None, Some(<<"a">>)}

\* The date parameters of a request: a timeframe alone, or any pair of dates.
Requests ==
    { q \in [broker_id : OptBrokers, symbol : OptSymbols, start_date : OptDates,
             end_date : OptDates, timeframe : OptTimeframes,
             group_by : {"broker_id", "symbol"}, limit : 1..MaxLimit,
             offset : 0..MaxOffset] :
        q.timeframe # None => (q.start_date = None /\ q.end_date = None) }

\* Query(None, regex="^(1D|1W|1M|3M|6M|1Y)$"), main.py:65
TimeframeValid(tf) == tf = None \/ tf[1] \in {"1D", "1W", "1M", "3M", "6M", "1Y"}

-----------------------------------------------------------------------------
(* the request *)

Init ==
    /\ store \in SUBSET Rows
    /\ now = None
    /\ req = None
    /\ pc = "idle"
    /\ session = "none"
    /\ resolved = None
    /\ filters = None
    /\ summary_row = None
    /\ chart_data = None
    /\ table_rows = None
    /\ table_data = None
    /\ total_count = None
    /\ response = None
    /\ logged = None

\* The response the handler's except clause turns every exception into,
\* main.py:148-150.
InternalError == [status_code |-> 500, detail |-> "Internal server error", body |-> None]

ExceptSessionKept(kind) ==
    /\ logged' = Some(kind)
    /\ response' = Some(InternalError)
    /\ pc' = "done"

\* except Exception as e: logger.error(...); raise HTTPException(500)
Except(kind) ==
    /\ logged' = Some(kind)
    /\ response' = Some(InternalError)
    /\ pc' = "teardown"

\* The request arrives: get_db opens the session (database.py:21-24) and the
\* query parameters are validated (main.py:61-68); a timeframe that does not
\* match its pattern is answered 422 without the handler running.
Receive ==
    /\ pc = "idle"
    /\ \E q \in Requests, t \in Clock :
          /\ req' = Some(q)
          /\ now' = Some(t)
          /\ session' = "open"
          /\ IF TimeframeValid(q.timeframe)
             THEN /\ pc' = "dates"
                  /\ response' = response
             ELSE /\ pc' = "teardown"
                  /\ response' = Some([status_code |-> 422, detail |-> "validation error",
                                       body |-> None])
    /\ UNCHANGED <<store, resolved, filters, summary_row, chart_data, table_rows,
                   table_data, total_count, logged>>

\* main.py:71-93: the date range, then the filter list
ResolveDates ==
    /\ pc = "dates"
    /\ LET q == req[1]
           r == get_timeframe_dates(q.timeframe, q.start_date, q.end_date, now[1])
       IN  /\ resolved' = Some(r)
           /\ IF r.ok
              THEN /\ filters' = Some(BuildFilters(r.start, r.end, q.broker_id, q.symbol))
                   /\ pc' = "summary"
                   /\ UNCHANGED <<response, logged>>
              ELSE /\ filters' = filters
                   /\ Except("HTTPException")
    /\ UNCHANGED <<store, now, req, session, summary_row, chart_data, table_rows,
                   table_data, total_count>>

\* main.py:95-96
ExecSummary ==
    /\ pc = "summary"
    /\ summary_row' = Some(SummaryStmt(Where(store, filters[1]), GroupCol(req[1].group_by)))
    /\ pc' = "chart"
    /\ UNCHANGED <<store, now, req, session, resolved, filters, chart_data, table_rows,
                   table_data, total_count, response, logged>>

\* main.py:105-109
ExecChart ==
    /\ pc = "chart"
    /\ LET rows == ChartStmt(Where(store, filters[1]))
       IN  chart_data' = Some([i \in DOMAIN rows |-> ChartItem(rows[i])])
    /\ pc' = "table"
    /\ UNCHANGED <<store, now, req, session, resolved, filters, summary_row, table_rows,
                   table_data, total_count, response, logged>>

\* main.py:120-130: the page of groups, then one TableItem per row
ExecTable ==
    /\ pc = "table"
    /\ \E rows \in TableStmt(Where(store, filters[1]), GroupCol(req[1].group_by),
                             req[1].limit, req[1].offset) :
          /\ table_rows' = Some(rows)
          /\ IF \A i \in DOMAIN rows : Validates(TableItemFields, ItemData(rows[i], req[1].group_by))
             THEN /\ table_data' = Some([i \in DOMAIN rows |-> ItemData(rows[i], req[1].group_by)])
                  /\ pc' = "count"
                  /\ UNCHANGED <<response, logged>>
             ELSE /\ table_data' = table_data
                  /\ Except("ValidationError")
    /\ UNCHANGED <<store, now, req, session, resolved, filters, summary_row, chart_data,
                   total_count>>

\* main.py:134-146: the count, then the response object
ExecCount ==
    /\ pc = "count"
    /\ LET total == CountStmt(Where(store, filters[1]), GroupCol(req[1].group_by))
           body  == ResponseData(SummaryData(summary_row[1]), chart_data[1], table_data[1],
                                 PaginationData(req[1].limit, req[1].offset, total))
       IN  /\ total_count' = Some(total)
           /\ IF /\ Validates(SummaryFields, body.summary)
                 /\ Validates(PaginationFields, body.pagination)
                 /\ Validates(HoldingsResponseFields, body)
              THEN /\ response' = Some([status_code |-> 200, detail |-> "", body |-> Some(body)])
                   /\ pc' = "teardown"
                   /\ logged' = logged
              ELSE Except("ValidationError")
    /\ UNCHANGED <<store, now, req, session, resolved, filters, summary_row, chart_data,
                   table_rows, table_data>>

\* Any of the four `await db.execute(...)` raises: the store is unreachable or
\* rejects the statement.
StoreError ==
    /\ pc \in {"summary", "chart", "table", "count"}
    /\ Except("StoreError")
    /\ UNCHANGED <<store, now, req, session, resolved, filters, summary_row, chart_data,
                   table_rows, table_data, total_count>>

\* database.py:25-26: the dependency's finally clause closes the session
Teardown ==
    /\ pc = "teardown"
    /\ session' = "closed"
    /\ pc' = "done"
    /\ UNCHANGED <<store, now, req, resolved, filters, summary_row, chart_data,
                   table_rows, table_data, total_count, response, logged>>

Next ==
    \/ Receive
    \/ ResolveDates
    \/ ExecSummary
    \/ ExecChart
    \/ ExecTable
    \/ ExecCount
    \/ StoreError
    \/ Teardown

Spec == Init /\ [][Next]_vars

\* The same request over a table of at most one row, with the scheduling the
\* event loop gives: the request's coroutine is run, and the store answers or
\* fails every statement.
SessionInit == Init /\ Cardinality(store) <= 1

FairSpec == SessionInit /\ [][Next]_vars /\ WF_vars(Next)

-----------------------------------------------------------------------------
(* the claims *)

Q == req[1]

BothDates(q) == q.timeframe = None /\ q.start_date # None /\ q.end_date # None
OneDate(q) == q.timeframe = None /\ ((q.start_date = None) # (q.end_date = None))

\* The handler ran to its end for a request the framework accepted, with a
\* resolved range and no failure of the store.
Served ==
    /\ pc = "done"
    /\ resolved # None
    /\ resolved[1].ok
    /\ logged # Some("StoreError")

Matching == Where(store, filters[1])

\* C1: a request whose explicit range spans more than 365 days, or whose
\* timeframe token is not one of 1D,1W,1M,3M,6M,1Y, is answered HTTP 400.
C1_BadRangeIs400 ==
    (/\ pc = "done"
     /\ \/ (Q.timeframe # None /\ Q.timeframe[1] \notin TimeframeTokens)
        \/ (BothDates(Q) /\ Q.end_date[1] - Q.start_date[1] > MaxRangeDays))
    => response[1].status_code = 400

\* C2: whenever get_timeframe_dates returns a range, start_instant <= end_instant.
C2_StartLeqEnd ==
    (resolved # None /\ resolved[1].ok) => DtLeq(resolved[1].start, resolved[1].end)

\* C3: with no timeframe and exactly one of start_date/end_date given, the
\* resolved range is the single day of the given date.
C3_SingleDay ==
    (resolved # None /\ OneDate(Q)) =>
        LET d == IF Q.start_date # None THEN Q.start_date[1] ELSE Q.end_date[1]
        IN  /\ resolved[1].ok
            /\ resolved[1].start = Combine(d, TimeMin)
            /\ resolved[1].end = Combine(d, TimeMax)

\* a timedelta longer than n days
LongerThanDays(td, n) ==
    td.days > n \/ (td.days = n /\ (td.seconds > 0 \/ td.microseconds > 0))

\* C4 as stated: with both dates given, get_timeframe_dates fails exactly when
\* end_instant - start_instant (end-of-day minus start-of-day) exceeds 365 days.
C4_FailsIffInstantsExceed ==
    (resolved # None /\ BothDates(Q)) =>
        ((~resolved[1].ok) <=>
            LongerThanDays(DtSub(Combine(Q.end_date[1], TimeMax),
                                 Combine(Q.start_date[1], TimeMin)), MaxRangeDays))

\* C4 amended: with both dates given, get_timeframe_dates fails exactly when
\* end_date is more than 365 calendar days after start_date (the whole days of
\* end_instant - start_instant exceed 365); otherwise it returns start_date at
\* start-of-day and end_date at end-of-day.
C4_FailsIffDatesExceed ==
    (resolved # None /\ BothDates(Q)) =>
        /\ (~resolved[1].ok) <=> (Q.end_date[1] - Q.start_date[1] > MaxRangeDays)
        /\ resolved[1].ok =>
              /\ resolved[1].start = DT(Q.start_date[1], 0, 0)
              /\ resolved[1].end = DT(Q.end_date[1], 86399, 999999)

\* C4 witness: dates exactly 365 days apart were accepted.
C4_Witness ==
    /\ resolved # None
    /\ BothDates(Q)
    /\ Q.end_date[1] - Q.start_date[1] = MaxRangeDays
    /\ resolved[1].ok

\* C5: the summary, chart, table and count of one request are computed under
\* one filter predicate, and no record with quantity <= 0 contributes to any of
\* them: each result is what the same statement gives on the store without
\* those records.
C5_NonPositiveExcluded ==
    LET pos == {r \in store : r.quantity > 0}
        S   == Where(pos, filters[1])
        col == GroupCol(Q.group_by)
    IN  /\ summary_row # None => summary_row[1] = SummaryStmt(S, col)
        /\ chart_data # None =>
              LET rows == ChartStmt(S)
              IN  chart_data[1] = [i \in DOMAIN rows |-> ChartItem(rows[i])]
        /\ table_rows # None => table_rows[1] \in TableStmt(S, col, Q.limit, Q.offset)
        /\ total_count # None => total_count[1] = CountStmt(S, col)

\* C5 witness: all four statements ran over a store that holds, inside the
\* resolved range, a record with quantity <= 0 beside records that count.
C5_Witness ==
    /\ total_count # None
    /\ total_count[1] >= 1
    /\ \E r \in store :
          /\ r.quantity <= 0
          /\ DtLeq(resolved[1].start, r.trade_date)
          /\ DtLeq(r.trade_date, resolved[1].end)
          /\ Q.broker_id = None
          /\ Q.symbol = None

\* C6: the summary's total_volume is the sum of quantity, and total_turnover the
\* sum of turnover, over the records matching the filter (zero when none does).
C6_VolumeIsSumOfQuantity ==
    summary_row # None =>
        /\ SummaryData(summary_row[1]).total_volume = SumCol(Matching, "quantity")
        /\ SummaryData(summary_row[1]).total_turnover = SumCol(Matching, "turnover")

\* C7: in grouped mode the response's pagination.total is the number of distinct
\* grouping-entity values in the filtered set, and it carries
\* min(limit, max(0, total - offset)) table rows.
C7_PageAndTotal ==
    Served =>
        LET total == Cardinality({r[GroupCol(Q.group_by)] : r \in Matching})
            left  == IF total > Q.offset THEN total - Q.offset ELSE 0
        IN  /\ response[1].body # None
            /\ response[1].body[1].pagination.total = total
            /\ Len(response[1].body[1].table_data) = Min(Q.limit, left)

\* C8: when the request supplies a broker_id (0 included), only records of that
\* broker contribute to the summary, chart, table and count.
C8_OnlyThatBroker ==
    (req # None /\ Q.broker_id # None /\ filters # None) =>
        LET S   == Where({r \in store : r.broker_id = Q.broker_id[1]}, filters[1])
            col == GroupCol(Q.group_by)
        IN  /\ summary_row # None => summary_row[1] = SummaryStmt(S, col)
            /\ chart_data # None =>
                  LET rows == ChartStmt(S)
                  IN  chart_data[1] = [i \in DOMAIN rows |-> ChartItem(rows[i])]
            /\ table_rows # None => table_rows[1] \in TableStmt(S, col, Q.limit, Q.offset)
            /\ total_count # None => total_count[1] = CountStmt(S, col)

\* C9: a valid request against a reachable store with at least one matching
\* record is answered with a success response carrying summary, chart_data,
\* table_data and pagination.
C9_Success ==
    (Served /\ Matching # {}) =>
        /\ response[1].status_code = 200
        /\ response[1].body # None
        /\ {"summary", "chart_data", "table_data", "pagination"}
              \subseteq DOMAIN response[1].body[1]

\* C10: the session get_db opened is eventually closed, and no request ends
\* with its session still open, whichever way the handler left.
C10_SessionReleased ==
    /\ [](pc = "done" => session = "closed")
    /\ (session = "open") ~> (session = "closed")

\* C10 witness: the request ended after a store error, its session closed.
C10_Witness ==
    /\ pc = "done"
    /\ session = "closed"
    /\ logged = Some("StoreError")

====
